---- MODULE Spec2Model ----
(***************************************************************************)
(* The pns_anchor program (solana/programs/pns_anchor/src/lib.rs): a       *)
(* registry account, one domain account per name hash and one record       *)
(* account per (domain, key hash), and the ten instructions that write     *)
(* them.  Each instruction is one atomic step: the accounts are validated  *)
(* as the #[derive(Accounts)] constraints say, the handler runs its        *)
(* require! checks and writes in the order of the code, and the runtime    *)
(* keeps the handler's writes only when it returns Ok.                     *)
(***************************************************************************)
EXTENDS Integers, Sequences, FiniteSets, TLC

(***************************************************************************)
(* u64.  TLC's integers are 32 bits wide, so a u64 is kept at its real     *)
(* width as three limbs <<hi, mid, lo>> of 16, 24 and 24 bits.             *)
(***************************************************************************)
LimbBase == 2^24

TopBase == 2^16

U64(n) == <<0, n \div LimbBase, n % LimbBase>>

U64_MAX == <<TopBase - 1, LimbBase - 1, LimbBase - 1>>

U64Lt(a, b) ==
    \/ a[1] < b[1]
    \/ a[1] = b[1] /\ a[2] < b[2]
    \/ a[1] = b[1] /\ a[2] = b[2] /\ a[3] < b[3]

U64Le(a, b) == a = b \/ U64Lt(a, b)

\* a + b at full width: the 64-bit sum and whether it carried out of bit 63.
AddCarry(a, b) ==
    LET lo == a[3] + b[3]
        mid == a[2] + b[2] + (lo \div LimbBase)
        hi == a[1] + b[1] + (mid \div LimbBase)
    IN  [carry |-> hi >= TopBase,
         value |-> <<hi % TopBase, mid % LimbBase, lo % LimbBase>>]

\* a - b for b <= a.
U64Sub(a, b) ==
    LET lo == a[3] - b[3]
        bl == IF lo < 0 THEN 1 ELSE 0
        mid == a[2] - b[2] - bl
        bm == IF mid < 0 THEN 1 ELSE 0
        hi == a[1] - b[1] - bm
    IN  <<hi, mid + bm * LimbBase, lo + bl * LimbBase>>

wrapping_add(a, b) == AddCarry(a, b).value

saturating_add(a, b) ==
    IF AddCarry(a, b).carry THEN U64_MAX ELSE AddCarry(a, b).value

\* `clock.unix_timestamp as u64`: an i64 reinterpreted as a u64.
as_u64(t) == IF t >= 0 THEN U64(t) ELSE U64Sub(U64_MAX, U64(-t - 1))

\* u16 counters (record_count).
U16_MAX == 2^16 - 1

\* A mutant of saturating_add_u16: u16::wrapping_add.
wrapping_add_u16(n, k) == (n + k) % 2^16

saturating_add_u16(n, k) == IF n + k > U16_MAX THEN U16_MAX ELSE n + k

saturating_sub_u16(n, k) == IF n - k < 0 THEN 0 ELSE n - k

(***************************************************************************)
(* Constants of the program.                                               *)
(***************************************************************************)
TEN_YEARS_IN_SECONDS == U64(10 * 365 * 24 * 60 * 60)

MAX_RECORD_LENGTH == 512

REGISTRY_VERSION == 2

\* Pubkey::default(), the all-zero key.  No signer holds it.
PubkeyDefault == 0

\* Option<Pubkey>: None is <<>>, Some(k) is <<k>>.
None == <<>>

Some(k) == <<k>>

\* A mutant of unwrap_or: Option::unwrap_or_default, the fallback is the zero key.
unwrap_or_default(o, d) == IF o = None THEN 0 ELSE o[1]

unwrap_or(o, d) == IF o = None THEN d ELSE o[1]

\* Vec<u8>: the vectors of n copies of one byte, kept as (len, byte).
Vec(n, b) == [len |-> n, byte |-> b]

\* The address of the domain PDA of a name hash (seeds "domain", name_hash):
\* a key that is neither the default key nor a signer's.
DomainKey(name_hash) == 100 + name_hash

(***************************************************************************)
(* Bounds of the model.                                                    *)
(***************************************************************************)
\* The clock stops advancing at MaxTime.
MaxTime == 2

\* The keys that sign transactions.
Signers == {1, 2, 3}

\* The model follows domain_count up to MaxDomainCount.
MaxDomainCount == 2

\* The model follows an expiration while it is at most MaxExpiration seconds past
\* 0 or past TEN_YEARS_IN_SECONDS, or within one second of the top of the u64 range.
MaxExpiration == MaxTime + 1

ExpirationInBounds(e) ==
    \/ U64Le(e, U64(MaxExpiration))
    \/ /\ U64Le(TEN_YEARS_IN_SECONDS, e)
       /\ U64Le(e, AddCarry(TEN_YEARS_IN_SECONDS, U64(MaxExpiration)).value)
    \/ U64Le(U64Sub(U64_MAX, U64(1)), e)

Pubkeys == {PubkeyDefault} \cup Signers


(***************************************************************************)
(* State.  An account that does not exist on the ledger is the zeroed      *)
(* account with live = FALSE; `init` and `init_if_needed` create it zeroed *)
(* and `close` removes it.  The bump fields hold the canonical bump of the *)
(* account's own address and are left out.                                 *)
(***************************************************************************)
VARIABLES
    registry,        \* the Registry account (seeds "registry")
    domain_account,  \* name_hash -> DomainAccount
    record_account,  \* <<name_hash, key_hash>> -> RecordAccount
    clock            \* the Clock sysvar: unix_timestamp and slot

vars == <<registry, domain_account, record_account, clock>>

NameHashes == {1, 2}

KeyHashes == {1, 2}

ZeroRegistry ==
    [live |-> FALSE, authority |-> PubkeyDefault, polygon_registry |-> 0,
     domain_count |-> U64(0), conflict_policy |-> "PolygonPriority", version |-> 0]

ZeroDomain ==
    [live |-> FALSE, name_hash |-> 0, owner |-> PubkeyDefault, resolver |-> None,
     expiration |-> U64(0), polygon_owner |-> 0, last_polygon_tx |-> 0,
     nft_mint |-> None, wrap_state |-> "None", record_count |-> 0]

ZeroRecord ==
    [live |-> FALSE, domain |-> PubkeyDefault, key_hash |-> 0, record_type |-> "Address",
     source_chain |-> "Polygon", version |-> U64(0), last_updated_slot |-> U64(0),
     data |-> Vec(0, 0)]

\* What the account constraint `init_if_needed` hands to the handler.
init_if_needed(account, zero) ==
    IF account.live THEN account ELSE [zero EXCEPT !.live = TRUE]

Init ==
    /\ registry = ZeroRegistry
    /\ domain_account = [n \in NameHashes |-> ZeroDomain]
    /\ record_account = [k \in NameHashes \X KeyHashes |-> ZeroRecord]
    /\ clock = [unix_timestamp |-> 0, slot |-> 0]

\* The ledger as it is now: what an instruction's Context is loaded from.
Ledger ==
    [registry |-> registry, domain_account |-> domain_account,
     record_account |-> record_account, clock |-> clock]

\* What a handler leaves behind when it returns: its result and the ledger with
\* the accounts as written so far.
Ret(result, ledger) == [result |-> result, ledger |-> ledger]

\* A mutant of Commit: the writes of a failed instruction are kept.
CommitKeepsFailedWrites(ctx, ret) == ret.ledger

\* The runtime keeps the account writes of an instruction whose handler returns
\* Ok(()) and discards them all, account creations included, when it returns Err.
Commit(ctx, ret) == IF ret.result = "Ok" THEN ret.ledger ELSE ctx

\* One instruction, as one atomic step.
Invoke(ret) ==
    /\ registry' = Commit(Ledger, ret).registry
    /\ domain_account' = Commit(Ledger, ret).domain_account
    /\ record_account' = Commit(Ledger, ret).record_account
    /\ UNCHANGED clock

\* Time passes between transactions.
Tick ==
    /\ clock.unix_timestamp < MaxTime
    /\ clock' = [unix_timestamp |-> clock.unix_timestamp + 1, slot |-> clock.slot + 1]
    /\ UNCHANGED <<registry, domain_account, record_account>>

(***************************************************************************)
(* initialize                                                              *)
(***************************************************************************)
\* A mutant of initialize_run: the registry is re-created when it exists.
initialize_run_again(ctx, authority, polygon_registry, conflict_policy) ==
    Ret("Ok", [ctx EXCEPT !.registry =
                  [live |-> TRUE, authority |-> authority,
                   polygon_registry |-> polygon_registry, domain_count |-> U64(0),
                   conflict_policy |-> conflict_policy, version |-> REGISTRY_VERSION]])

\* A mutant of initialize_run: the policy argument is dropped for the default.
initialize_run_default_policy(ctx, authority, polygon_registry, conflict_policy) ==
    IF ctx.registry.live
    THEN Ret("AccountAlreadyInUse", ctx)
    ELSE Ret("Ok", [ctx EXCEPT !.registry =
                        [live |-> TRUE, authority |-> authority,
                         polygon_registry |-> polygon_registry,
                         domain_count |-> U64(0),
                         conflict_policy |-> "PolygonPriority",
                         version |-> REGISTRY_VERSION]])

initialize_run(ctx, authority, polygon_registry, conflict_policy) ==
    IF ctx.registry.live
    THEN \* `init` on an address that already holds an account
         Ret("AccountAlreadyInUse", ctx)
    ELSE Ret("Ok", [ctx EXCEPT !.registry =
                       [live |-> TRUE, authority |-> authority,
                        polygon_registry |-> polygon_registry, domain_count |-> U64(0),
                        conflict_policy |-> conflict_policy,
                        version |-> REGISTRY_VERSION]])

initialize(authority, polygon_registry, conflict_policy) ==
    Invoke(initialize_run(Ledger, authority, polygon_registry, conflict_policy))

(***************************************************************************)
(* register_domain                                                         *)
(***************************************************************************)
\* The two duration checks of register_domain and renew_domain.
duration_valid(duration) ==
    U64Lt(U64(0), duration) /\ U64Le(duration, TEN_YEARS_IN_SECONDS)

\* A mutant of domain_available: a domain is free only after its expiration.
domain_available_strict(domain, now) ==
    domain.owner # PubkeyDefault => U64Lt(domain.expiration, now)

\* The availability check of register_domain.
domain_available(domain, now) ==
    domain.owner # PubkeyDefault => U64Le(domain.expiration, now)

register_domain_run(ctx, owner, name_hash, duration, resolver) ==
    LET domain == init_if_needed(ctx.domain_account[name_hash], ZeroDomain)
        created == [ctx EXCEPT !.domain_account[name_hash] = domain]
        now == as_u64(ctx.clock.unix_timestamp)
    IN  IF ~ctx.registry.live
        THEN Ret("AccountNotInitialized", created)
        ELSE IF ~duration_valid(duration)
        THEN Ret("InvalidDuration", created)
        ELSE IF ~domain_available(domain, now)
        THEN Ret("DomainNotAvailable", created)
        ELSE Ret("Ok",
                 [ctx EXCEPT
                    !.domain_account[name_hash] =
                        [live |-> TRUE, name_hash |-> name_hash, owner |-> owner,
                         resolver |-> resolver,
                         expiration |-> AddCarry(now, duration).value,
                         polygon_owner |-> 0, last_polygon_tx |-> 0,
                         nft_mint |-> None, wrap_state |-> "None", record_count |-> 0],
                    !.registry.domain_count = saturating_add(@, U64(1))])

register_domain(owner, name_hash, duration, resolver) ==
    Invoke(register_domain_run(Ledger, owner, name_hash, duration, resolver))

(***************************************************************************)
(* renew_domain                                                            *)
(***************************************************************************)
\* A mutant of renew_domain_run: an expired domain is renewed from the current time.
renew_domain_run_from_now(ctx, owner, name_hash, duration) ==
    LET domain == ctx.domain_account[name_hash]
        now == as_u64(ctx.clock.unix_timestamp)
    IN  IF ~domain.live
        THEN Ret("AccountNotInitialized", ctx)
        ELSE IF ~duration_valid(duration)
        THEN Ret("InvalidDuration", ctx)
        ELSE IF ~(domain.owner = owner)
        THEN Ret("Unauthorized", ctx)
        ELSE Ret("Ok", [ctx EXCEPT !.domain_account[name_hash].expiration =
                          saturating_add(IF U64Lt(@, now) THEN now ELSE @, duration)])

renew_domain_run(ctx, owner, name_hash, duration) ==
    LET domain == ctx.domain_account[name_hash]
    IN  IF ~domain.live
        THEN Ret("AccountNotInitialized", ctx)
        ELSE IF ~duration_valid(duration)
        THEN Ret("InvalidDuration", ctx)
        ELSE IF ~(domain.owner = owner)
        THEN Ret("Unauthorized", ctx)
        ELSE Ret("Ok", [ctx EXCEPT !.domain_account[name_hash].expiration =
                                      saturating_add(@, duration)])

renew_domain(owner, name_hash, duration) ==
    Invoke(renew_domain_run(Ledger, owner, name_hash, duration))

(***************************************************************************)
(* transfer_domain                                                         *)
(***************************************************************************)
\* A mutant of transfer_domain_run: the caller is checked before the expiration.
transfer_domain_run_caller_first(ctx, owner, name_hash, new_owner) ==
    LET domain == ctx.domain_account[name_hash]
        now == as_u64(ctx.clock.unix_timestamp)
    IN  IF ~domain.live
        THEN Ret("AccountNotInitialized", ctx)
        ELSE IF ~(domain.owner # PubkeyDefault)
        THEN Ret("DomainNotAvailable", ctx)
        ELSE IF ~(domain.owner = owner)
        THEN Ret("Unauthorized", ctx)
        ELSE IF ~U64Lt(now, domain.expiration)
        THEN Ret("DomainExpired", ctx)
        ELSE Ret("Ok", [ctx EXCEPT !.domain_account[name_hash].owner = new_owner])

\* A mutant of transfer_domain_run: a mirrored domain cannot be transferred.
transfer_domain_run_unmirrored_only(ctx, owner, name_hash, new_owner) ==
    LET domain == ctx.domain_account[name_hash]
        now == as_u64(ctx.clock.unix_timestamp)
    IN  IF ~domain.live
        THEN Ret("AccountNotInitialized", ctx)
        ELSE IF ~(domain.owner # PubkeyDefault)
        THEN Ret("DomainNotAvailable", ctx)
        ELSE IF ~U64Lt(now, domain.expiration)
        THEN Ret("DomainExpired", ctx)
        ELSE IF ~(domain.owner = owner /\ domain.polygon_owner = 0)
        THEN Ret("Unauthorized", ctx)
        ELSE Ret("Ok", [ctx EXCEPT !.domain_account[name_hash].owner = new_owner])

transfer_domain_run(ctx, owner, name_hash, new_owner) ==
    LET domain == ctx.domain_account[name_hash]
        now == as_u64(ctx.clock.unix_timestamp)
    IN  IF ~domain.live
        THEN Ret("AccountNotInitialized", ctx)
        ELSE IF ~(domain.owner # PubkeyDefault)
        THEN Ret("DomainNotAvailable", ctx)
        ELSE IF ~U64Lt(now, domain.expiration)
        THEN Ret("DomainExpired", ctx)
        ELSE IF ~(domain.owner = owner)
        THEN Ret("Unauthorized", ctx)
        ELSE Ret("Ok", [ctx EXCEPT !.domain_account[name_hash].owner = new_owner])

transfer_domain(owner, name_hash, new_owner) ==
    Invoke(transfer_domain_run(Ledger, owner, name_hash, new_owner))

(***************************************************************************)
(* set_resolver                                                            *)
(***************************************************************************)
\* A mutant of set_resolver_run: the caller is not checked.
set_resolver_run_unchecked(ctx, owner, name_hash, resolver) ==
    IF ~ctx.domain_account[name_hash].live
    THEN Ret("AccountNotInitialized", ctx)
    ELSE Ret("Ok", [ctx EXCEPT !.domain_account[name_hash].resolver = resolver])

set_resolver_run(ctx, owner, name_hash, resolver) ==
    LET domain == ctx.domain_account[name_hash]
    IN  IF ~domain.live
        THEN Ret("AccountNotInitialized", ctx)
        ELSE IF ~(domain.owner = owner)
        THEN Ret("Unauthorized", ctx)
        ELSE Ret("Ok", [ctx EXCEPT !.domain_account[name_hash].resolver = resolver])

set_resolver(owner, name_hash, resolver) ==
    Invoke(set_resolver_run(Ledger, owner, name_hash, resolver))

(***************************************************************************)
(* mirror_domain                                                           *)
(***************************************************************************)
\* A mutant of was_uninitialized: the account is new when it has no name yet.
was_uninitialized_by_name(domain) == domain.name_hash = 0

\* A mutant of was_uninitialized: every mirror counts as a first one.
was_uninitialized_always(domain) == TRUE

\* `was_uninitialized` of mirror_domain.
was_uninitialized(domain) == domain.owner = PubkeyDefault

mirror_domain_run(ctx, authority, name_hash, polygon_owner, solana_delegate, expiration, resolver, polygon_tx) ==
    LET domain == init_if_needed(ctx.domain_account[name_hash], ZeroDomain)
        created == [ctx EXCEPT !.domain_account[name_hash] = domain]
        mirrored == [domain EXCEPT
                        !.name_hash = name_hash,
                        !.owner = unwrap_or(solana_delegate, ctx.registry.authority),
                        !.polygon_owner = polygon_owner,
                        !.resolver = resolver,
                        !.expiration = expiration,
                        !.last_polygon_tx = polygon_tx]
    IN  IF ~ctx.registry.live
        THEN Ret("AccountNotInitialized", created)
        ELSE IF ctx.registry.authority # authority
        THEN Ret("Unauthorized", created)
        ELSE IF was_uninitialized(domain)
        THEN Ret("Ok",
                 [ctx EXCEPT
                    !.domain_account[name_hash] =
                        [mirrored EXCEPT !.wrap_state = "None", !.record_count = 0],
                    !.registry.domain_count = saturating_add(@, U64(1))])
        ELSE Ret("Ok", [ctx EXCEPT !.domain_account[name_hash] = mirrored])

mirror_domain(authority, name_hash, polygon_owner, solana_delegate, expiration, resolver, polygon_tx) ==
    Invoke(mirror_domain_run(Ledger, authority, name_hash, polygon_owner,
                             solana_delegate, expiration, resolver, polygon_tx))

(***************************************************************************)
(* update_delegate                                                         *)
(***************************************************************************)
\* A mutant of update_delegate_run: the new delegate starts without a resolver.
update_delegate_run_clears_resolver(ctx, authority, name_hash, new_delegate) ==
    IF ~ctx.domain_account[name_hash].live \/ ~ctx.registry.live
    THEN Ret("AccountNotInitialized", ctx)
    ELSE IF ctx.registry.authority # authority
    THEN Ret("Unauthorized", ctx)
    ELSE Ret("Ok", [ctx EXCEPT !.domain_account[name_hash].owner = new_delegate,
                               !.domain_account[name_hash].resolver = None])

update_delegate_run(ctx, authority, name_hash, new_delegate) ==
    IF ~ctx.domain_account[name_hash].live \/ ~ctx.registry.live
    THEN Ret("AccountNotInitialized", ctx)
    ELSE IF ctx.registry.authority # authority
    THEN Ret("Unauthorized", ctx)
    ELSE Ret("Ok", [ctx EXCEPT !.domain_account[name_hash].owner = new_delegate])

update_delegate(authority, name_hash, new_delegate) ==
    Invoke(update_delegate_run(Ledger, authority, name_hash, new_delegate))

(***************************************************************************)
(* upsert_record                                                           *)
(***************************************************************************)
\* A mutant of conflict_violation: the check is applied to Polygon writes too.
conflict_violation_any_source(policy, record, source_chain, version) ==
    /\ policy = "PolygonPriority"
    /\ U64Lt(U64(0), record.version)
    /\ ~U64Le(record.version, version)

\* The conflict check of upsert_record: whether the write is refused.
conflict_violation(policy, record, source_chain, version) ==
    /\ policy = "PolygonPriority"
    /\ U64Lt(U64(0), record.version)
    /\ source_chain = "Solana"
    /\ ~U64Le(record.version, version)

upsert_record_run(ctx, signer, name_hash, key_hash, record_type, data, source_chain, version) ==
    LET domain == ctx.domain_account[name_hash]
        key == <<name_hash, key_hash>>
        record == init_if_needed(ctx.record_account[key], ZeroRecord)
        created == [ctx EXCEPT !.record_account[key] = record]
        was_empty == record.domain = PubkeyDefault
        written == [live |-> TRUE, domain |-> DomainKey(name_hash),
                    key_hash |-> key_hash, record_type |-> record_type,
                    source_chain |-> source_chain, version |-> version,
                    last_updated_slot |-> U64(ctx.clock.slot), data |-> data]
    IN  IF ~domain.live
        THEN Ret("AccountNotInitialized", ctx)
        ELSE IF ~ctx.registry.live
        THEN Ret("AccountNotInitialized", created)
        ELSE IF ~(signer = ctx.registry.authority \/ signer = domain.owner)
        THEN Ret("Unauthorized", created)
        ELSE IF ~(data.len <= MAX_RECORD_LENGTH)
        THEN Ret("RecordTooLarge", created)
        ELSE IF conflict_violation(ctx.registry.conflict_policy, record,
                                   source_chain, version)
        THEN Ret("ConflictViolation", created)
        ELSE IF was_empty
        THEN Ret("Ok",
                 [ctx EXCEPT
                    !.record_account[key] = written,
                    !.domain_account[name_hash].record_count =
                        saturating_add_u16(@, 1)])
        ELSE Ret("Ok", [ctx EXCEPT !.record_account[key] = written])

upsert_record(signer, name_hash, key_hash, record_type, data, source_chain, version) ==
    Invoke(upsert_record_run(Ledger, signer, name_hash, key_hash, record_type, data,
                             source_chain, version))

(***************************************************************************)
(* delete_record                                                           *)
(***************************************************************************)
\* A mutant of delete_record_run: the record account is not closed.
delete_record_run_keeps_account(ctx, signer, name_hash, key_hash) ==
    LET domain == ctx.domain_account[name_hash]
        key == <<name_hash, key_hash>>
    IN  IF ~domain.live \/ ~ctx.record_account[key].live \/ ~ctx.registry.live
        THEN Ret("AccountNotInitialized", ctx)
        ELSE IF ~(signer = ctx.registry.authority \/ signer = domain.owner)
        THEN Ret("Unauthorized", ctx)
        ELSE Ret("Ok",
                 [ctx EXCEPT
                    !.domain_account[name_hash].record_count =
                        saturating_sub_u16(@, 1)])

delete_record_run(ctx, signer, name_hash, key_hash) ==
    LET domain == ctx.domain_account[name_hash]
        key == <<name_hash, key_hash>>
    IN  IF ~domain.live \/ ~ctx.record_account[key].live \/ ~ctx.registry.live
        THEN Ret("AccountNotInitialized", ctx)
        ELSE IF ~(signer = ctx.registry.authority \/ signer = domain.owner)
        THEN Ret("Unauthorized", ctx)
        ELSE Ret("Ok",
                 [ctx EXCEPT
                    !.domain_account[name_hash].record_count =
                        saturating_sub_u16(@, 1),
                    \* `close = authority`: the record account is removed on exit
                    !.record_account[key] = ZeroRecord])

delete_record(signer, name_hash, key_hash) ==
    Invoke(delete_record_run(Ledger, signer, name_hash, key_hash))

(***************************************************************************)
(* set_wrap_state                                                          *)
(***************************************************************************)
set_wrap_state_run(ctx, authority, name_hash, nft_mint, wrap_state) ==
    IF ~ctx.domain_account[name_hash].live \/ ~ctx.registry.live
    THEN Ret("AccountNotInitialized", ctx)
    ELSE IF ctx.registry.authority # authority
    THEN Ret("Unauthorized", ctx)
    ELSE Ret("Ok", [ctx EXCEPT !.domain_account[name_hash].nft_mint = nft_mint,
                               !.domain_account[name_hash].wrap_state = wrap_state])

set_wrap_state(authority, name_hash, nft_mint, wrap_state) ==
    Invoke(set_wrap_state_run(Ledger, authority, name_hash, nft_mint, wrap_state))

(***************************************************************************)
(* The next-state relation: any signer sends any instruction, with its     *)
(* arguments drawn from the sets of `I`, or time passes.                   *)
(***************************************************************************)
Step(I) ==
    \/ \E a \in I.authorities, p \in I.policies :
          initialize(a, 7, p)
    \/ \E s \in I.signers, n \in I.names, d \in I.durations, r \in I.resolvers :
          /\ U64Lt(registry.domain_count, U64(MaxDomainCount))
          /\ register_domain(s, n, d, r)
    \/ \E s \in I.signers, n \in I.names, d \in I.durations :
          /\ ExpirationInBounds(renew_domain_run(Ledger, s, n, d).ledger.domain_account[n].expiration)
          /\ renew_domain(s, n, d)
    \/ \E s \in I.signers, n \in I.names, o \in I.new_owners :
          transfer_domain(s, n, o)
    \/ \E s \in I.signers, n \in I.names, r \in I.resolvers :
          set_resolver(s, n, r)
    \/ \E s \in I.signers, n \in I.names, d \in I.delegates, e \in I.expirations,
          r \in I.mirror_resolvers :
          /\ U64Lt(registry.domain_count, U64(MaxDomainCount))
          /\ mirror_domain(s, n, 5, d, e, r, 6)
    \/ \E s \in I.signers, n \in I.names, o \in I.new_owners :
          update_delegate(s, n, o)
    \/ \E s \in I.signers, n \in I.names, k \in I.keys, t \in I.record_types,
          d \in I.datas, c \in I.sources, v \in I.versions :
          upsert_record(s, n, k, t, d, c, v)
    \/ \E s \in I.signers, n \in I.names, k \in I.keys :
          delete_record(s, n, k)
    \/ \E s \in I.signers, n \in I.names, w \in I.wraps :
          set_wrap_state(s, n, w[1], w[2])
    \/ Tick

\* The inputs of the domain lifecycle: one name, every class of duration, a
\* mirrored expiration that has passed by time 1 and one just below the top of
\* the u64 range, every key as the new delegate; one record of one shape.
DomainInputs ==
    [authorities |-> {1}, signers |-> Signers,
     policies |-> {"PolygonPriority"},
     names |-> {1}, keys |-> {1},
     durations |-> {U64(0), U64(1), TEN_YEARS_IN_SECONDS,
                    AddCarry(TEN_YEARS_IN_SECONDS, U64(1)).value},
     resolvers |-> {None, Some(2)}, mirror_resolvers |-> {None},
     new_owners |-> Pubkeys,
     delegates |-> {None, Some(2)},
     expirations |-> {U64(1), U64Sub(U64_MAX, U64(1))},
     record_types |-> {"Text"}, datas |-> {Vec(20, 1)},
     sources |-> {"Polygon"}, versions |-> {U64(1)},
     wraps |-> {<<Some(9), "Solana">>, <<Some(9), "None">>, <<None, "None">>}]

\* The inputs of the record lifecycle: both policies, both sources, versions
\* around a stored one, payloads below, at and above MAX_RECORD_LENGTH; one
\* domain, mirrored to a delegate other than the authority.
RecordInputs ==
    [authorities |-> {1}, signers |-> Signers,
     policies |-> {"PolygonPriority", "LatestWriteWins"},
     names |-> {1}, keys |-> {1},
     durations |-> {U64(0), U64(1)},
     resolvers |-> {None}, mirror_resolvers |-> {None},
     new_owners |-> {3},
     delegates |-> {Some(2)},
     expirations |-> {U64(1)},
     record_types |-> {"Text"},
     datas |-> {Vec(20, 1), Vec(MAX_RECORD_LENGTH, 2), Vec(MAX_RECORD_LENGTH + 1, 3)},
     sources |-> {"Polygon", "Solana"},
     versions |-> {U64(0), U64(4), U64(5), U64(6)},
     wraps |-> {<<Some(9), "Solana">>}]

\* The inputs of two domains side by side, each with a record: two names, the
\* authority and one delegate, one value of every argument.
FrameInputs ==
    [authorities |-> {1}, signers |-> {1, 2},
     policies |-> {"PolygonPriority"},
     names |-> {1, 2}, keys |-> {1},
     durations |-> {U64(1)},
     resolvers |-> {Some(2)}, mirror_resolvers |-> {None},
     new_owners |-> {2},
     delegates |-> {None},
     expirations |-> {U64(2)},
     record_types |-> {"Text"}, datas |-> {Vec(20, 1)},
     sources |-> {"Polygon"}, versions |-> {U64(1)},
     wraps |-> {<<Some(9), "Solana">>}]

Next == Step(DomainInputs)

Spec == Init /\ [][Next]_vars

NextRecord == Step(RecordInputs)

SpecRecord == Init /\ [][NextRecord]_vars

NextFrame == Step(FrameInputs)

SpecFrame == Init /\ [][NextFrame]_vars

(***************************************************************************)
(* The counters at the top of their ranges.  The registry has counted all  *)
(* but one of the domains a u64 can count, and the first domain all but    *)
(* one of the records a u16 can count (their accounts lie at key hashes    *)
(* other than the two followed here).                                      *)
(***************************************************************************)
InitSaturate ==
    /\ registry = [live |-> TRUE, authority |-> 1, polygon_registry |-> 7,
                   domain_count |-> U64Sub(U64_MAX, U64(1)),
                   conflict_policy |-> "PolygonPriority", version |-> REGISTRY_VERSION]
    /\ domain_account =
          [n \in NameHashes |->
              IF n = 1
              THEN [ZeroDomain EXCEPT !.live = TRUE, !.name_hash = 1, !.owner = 2,
                                      !.expiration = U64(1),
                                      !.record_count = U16_MAX - 1]
              ELSE ZeroDomain]
    /\ record_account = [k \in NameHashes \X KeyHashes |-> ZeroRecord]
    /\ clock = [unix_timestamp |-> 0, slot |-> 0]

NextSaturate ==
    \/ \E s \in {2, 3}, n \in NameHashes, d \in {U64(1), TEN_YEARS_IN_SECONDS} :
          register_domain(s, n, d, None)
    \/ \E s \in {2, 3}, d \in {U64(1), TEN_YEARS_IN_SECONDS} :
          /\ ExpirationInBounds(renew_domain_run(Ledger, s, 1, d).ledger.domain_account[1].expiration)
          /\ renew_domain(s, 1, d)
    \/ \E d \in {None, Some(2)}, e \in {U64(1), U64Sub(U64_MAX, U64(1))} :
          mirror_domain(1, 1, 5, d, e, None, 6)
    \/ \E o \in {PubkeyDefault, 2} :
          update_delegate(1, 1, o)
    \/ \E s \in {1, 2}, k \in KeyHashes :
          upsert_record(s, 1, k, "Text", Vec(20, 1), "Polygon", U64(1))
    \/ \E s \in {1, 2}, k \in KeyHashes :
          delete_record(s, 1, k)
    \/ Tick

SpecSaturate == InitSaturate /\ [][NextSaturate]_vars

(***************************************************************************)
(* Properties.  A handler is a function of the ledger it is invoked on and *)
(* of its arguments, so a statement about every call of an instruction is  *)
(* an invariant: in every reachable ledger, for every signer and argument. *)
(***************************************************************************)
\* Whether `signer` may write the records of `domain`.
MayWriteRecords(ctx, signer, name_hash) ==
    signer = ctx.registry.authority \/ signer = ctx.domain_account[name_hash].owner

\* C1: an upsert_record by the registry authority or the domain's delegate, with a
\* payload of at most 512 bytes, fails with ConflictViolation exactly when the
\* policy is PolygonPriority, the stored version is > 0, the incoming source is
\* Solana (Local) and the incoming version is below the stored one; in every other
\* case it succeeds and the record holds the submitted type, source, version and
\* payload.  (The domain account exists: the caller is its delegate or the
\* authority of the registry it was created under.)
C1_UpsertConflictRule ==
    \A s \in RecordInputs.signers, n \in RecordInputs.names, k \in RecordInputs.keys,
       t \in RecordInputs.record_types, d \in RecordInputs.datas,
       c \in RecordInputs.sources, v \in RecordInputs.versions :
        LET stored == record_account[<<n, k>>]
            ret == upsert_record_run(Ledger, s, n, k, t, d, c, v)
            after == Commit(Ledger, ret).record_account[<<n, k>>]
            refused == /\ registry.conflict_policy = "PolygonPriority"
                       /\ stored.version # U64(0)
                       /\ c = "Solana"
                       /\ U64Lt(v, stored.version)
        IN  (/\ registry.live
             /\ domain_account[n].live
             /\ MayWriteRecords(Ledger, s, n)
             /\ d.len <= 512)
            => /\ ret.result = "ConflictViolation" <=> refused
               /\ ~refused =>
                    /\ ret.result = "Ok"
                    /\ after.live
                    /\ after.record_type = t /\ after.source_chain = c
                    /\ after.version = v /\ after.data = d
               /\ refused => after = stored

\* C1's case: under PolygonPriority a record stored at version 5, where the
\* delegate's Solana write of version 4 is refused, its write of version 6 and the
\* Polygon write of version 4 are accepted.
C1_Witness ==
    \E n \in RecordInputs.names, k \in RecordInputs.keys :
        /\ registry.live /\ registry.conflict_policy = "PolygonPriority"
        /\ domain_account[n].live /\ domain_account[n].owner = 2
        /\ record_account[<<n, k>>].version = U64(5)
        /\ record_account[<<n, k>>].source_chain = "Solana"
        /\ upsert_record_run(Ledger, 2, n, k, "Text", Vec(20, 1), "Solana", U64(4)).result
             = "ConflictViolation"
        /\ upsert_record_run(Ledger, 2, n, k, "Text", Vec(20, 1), "Solana", U64(6)).result
             = "Ok"
        /\ upsert_record_run(Ledger, 2, n, k, "Text", Vec(20, 1), "Polygon", U64(4)).result
             = "Ok"

\* C2: each domain's record_count is the number of record accounts that exist
\* under it.
C2_RecordCountMatches ==
    \A n \in NameHashes :
        domain_account[n].live =>
            domain_account[n].record_count =
                Cardinality({k \in KeyHashes : record_account[<<n, k>>].live})

\* C3: the delegate of a domain account that exists is never the default key.
C3_DelegateNeverDefault ==
    \A n \in NameHashes :
        domain_account[n].live => domain_account[n].owner # PubkeyDefault

\* What each instruction returns on the ledger `ctx`, for every signer and every
\* argument of `I`.
Runs(ctx, I) ==
    {initialize_run(ctx, a, 7, p) : a \in I.authorities, p \in I.policies}
    \cup {register_domain_run(ctx, x[1], x[2], x[3], x[4]) :
            x \in I.signers \X I.names \X I.durations \X I.resolvers}
    \cup {renew_domain_run(ctx, x[1], x[2], x[3]) :
            x \in I.signers \X I.names \X I.durations}
    \cup {transfer_domain_run(ctx, x[1], x[2], x[3]) :
            x \in I.signers \X I.names \X I.new_owners}
    \cup {set_resolver_run(ctx, x[1], x[2], x[3]) :
            x \in I.signers \X I.names \X I.resolvers}
    \cup {mirror_domain_run(ctx, x[1], x[2], 5, x[3], x[4], x[5], 6) :
            x \in I.signers \X I.names \X I.delegates \X I.expirations
                  \X I.mirror_resolvers}
    \cup {update_delegate_run(ctx, x[1], x[2], x[3]) :
            x \in I.signers \X I.names \X I.new_owners}
    \cup {upsert_record_run(ctx, x[1], x[2], x[3], x[4], x[5], x[6], x[7]) :
            x \in I.signers \X I.names \X I.keys \X I.record_types \X I.datas
                  \X I.sources \X I.versions}
    \cup {delete_record_run(ctx, x[1], x[2], x[3]) :
            x \in I.signers \X I.names \X I.keys}
    \cup {set_wrap_state_run(ctx, x[1], x[2], x[3][1], x[3][2]) :
            x \in I.signers \X I.names \X I.wraps}

\* The handler has written nothing: `after` is `before`, but for the accounts that
\* `init_if_needed` created zeroed for it.
WroteNothing(before, after) ==
    /\ after.registry = before.registry
    /\ after.clock = before.clock
    /\ \A n \in NameHashes :
          \/ after.domain_account[n] = before.domain_account[n]
          \/ /\ ~before.domain_account[n].live
             /\ after.domain_account[n] = [ZeroDomain EXCEPT !.live = TRUE]
    /\ \A k \in NameHashes \X KeyHashes :
          \/ after.record_account[k] = before.record_account[k]
          \/ /\ ~before.record_account[k].live
             /\ after.record_account[k] = [ZeroRecord EXCEPT !.live = TRUE]

\* C4: an instruction that fails leaves the registry, every domain account and
\* every record account as they were: its handler returns the error before its
\* first write, and the accounts created for it are discarded with it.
C4_FailureChangesNothing ==
    \A ret \in Runs(Ledger, RecordInputs) :
        ret.result # "Ok" =>
            /\ WroteNothing(Ledger, ret.ledger)
            /\ Commit(Ledger, ret) = Ledger

\* C4's case: a ledger on which calls fail with Unauthorized, InvalidDuration,
\* DomainExpired, RecordTooLarge and ConflictViolation.
C4_Witness ==
    \A e \in {"Unauthorized", "InvalidDuration", "DomainExpired", "RecordTooLarge",
              "ConflictViolation"} :
        \E ret \in Runs(Ledger, RecordInputs) : ret.result = e

\* The current time as the handlers read it.
Now == U64(clock.unix_timestamp)

\* A duration the handlers accept: 0 < d <= ten years of seconds.
ValidDuration(d) == d # U64(0) /\ U64Le(d, U64(315360000))

\* The call is refused: it fails with Unauthorized, or with one of the errors
\* checked before the caller is, and the ledger stays as it is.
Denied(ret, earlier) ==
    /\ ret.result \in {"Unauthorized"} \cup earlier
    /\ Commit(Ledger, ret) = Ledger

\* C5: mirror_domain, update_delegate and set_wrap_state succeed only for the
\* registry authority; renew_domain, transfer_domain and set_resolver only for the
\* domain's stored delegate; upsert_record and delete_record only for either.  Any
\* other caller fails with Unauthorized, or with an error checked earlier, and
\* changes nothing; Unauthorized is the error when every earlier check passes.
C5_Authorization ==
    \A s \in DomainInputs.signers, n \in DomainInputs.names :
        LET dom == domain_account[n]
            both == registry.live /\ dom.live
        IN
        /\ \A d \in DomainInputs.delegates, e \in DomainInputs.expirations,
              r \in DomainInputs.mirror_resolvers :
              LET ret == mirror_domain_run(Ledger, s, n, 5, d, e, r, 6)
              IN  /\ ret.result = "Ok" => s = registry.authority
                  /\ s # registry.authority =>
                        /\ Denied(ret, {"AccountNotInitialized"})
                        /\ registry.live => ret.result = "Unauthorized"
        /\ \A o \in DomainInputs.new_owners :
              LET ret == update_delegate_run(Ledger, s, n, o)
              IN  /\ ret.result = "Ok" => s = registry.authority
                  /\ s # registry.authority =>
                        /\ Denied(ret, {"AccountNotInitialized"})
                        /\ both => ret.result = "Unauthorized"
        /\ \A w \in DomainInputs.wraps :
              LET ret == set_wrap_state_run(Ledger, s, n, w[1], w[2])
              IN  /\ ret.result = "Ok" => s = registry.authority
                  /\ s # registry.authority =>
                        /\ Denied(ret, {"AccountNotInitialized"})
                        /\ both => ret.result = "Unauthorized"
        /\ \A d \in DomainInputs.durations :
              LET ret == renew_domain_run(Ledger, s, n, d)
              IN  /\ ret.result = "Ok" => s = dom.owner
                  /\ s # dom.owner =>
                        /\ Denied(ret, {"AccountNotInitialized", "InvalidDuration"})
                        /\ dom.live /\ ValidDuration(d) => ret.result = "Unauthorized"
        /\ \A o \in DomainInputs.new_owners :
              LET ret == transfer_domain_run(Ledger, s, n, o)
              IN  /\ ret.result = "Ok" => s = dom.owner
                  /\ s # dom.owner =>
                        /\ Denied(ret, {"AccountNotInitialized", "DomainNotAvailable",
                                        "DomainExpired"})
                        /\ (/\ dom.live /\ dom.owner # PubkeyDefault
                            /\ U64Lt(Now, dom.expiration))
                           => ret.result = "Unauthorized"
        /\ \A r \in DomainInputs.resolvers :
              LET ret == set_resolver_run(Ledger, s, n, r)
              IN  /\ ret.result = "Ok" => s = dom.owner
                  /\ s # dom.owner =>
                        /\ Denied(ret, {"AccountNotInitialized"})
                        /\ dom.live => ret.result = "Unauthorized"
        /\ \A k \in DomainInputs.keys, t \in DomainInputs.record_types,
              d \in DomainInputs.datas, c \in DomainInputs.sources,
              v \in DomainInputs.versions :
              LET ret == upsert_record_run(Ledger, s, n, k, t, d, c, v)
              IN  /\ ret.result = "Ok" => MayWriteRecords(Ledger, s, n)
                  /\ ~MayWriteRecords(Ledger, s, n) =>
                        /\ Denied(ret, {"AccountNotInitialized"})
                        /\ both => ret.result = "Unauthorized"
        /\ \A k \in DomainInputs.keys :
              LET ret == delete_record_run(Ledger, s, n, k)
              IN  /\ ret.result = "Ok" => MayWriteRecords(Ledger, s, n)
                  /\ ~MayWriteRecords(Ledger, s, n) =>
                        /\ Denied(ret, {"AccountNotInitialized"})
                        /\ both /\ record_account[<<n, k>>].live
                           => ret.result = "Unauthorized"

\* C5's case: the authority is 1, the delegate of an unexpired domain with a
\* record is 2, and signer 3 is refused by all eight instructions with
\* Unauthorized, while 1 and 2 are each accepted by the ones they may call.
C5_Witness ==
    \E n \in DomainInputs.names :
        /\ registry.authority = 1 /\ domain_account[n].owner = 2
        /\ U64Lt(Now, domain_account[n].expiration)
        /\ record_account[<<n, 1>>].live
        /\ mirror_domain_run(Ledger, 3, n, 5, None, U64(1), None, 6).result = "Unauthorized"
        /\ update_delegate_run(Ledger, 3, n, 3).result = "Unauthorized"
        /\ set_wrap_state_run(Ledger, 3, n, None, "None").result = "Unauthorized"
        /\ renew_domain_run(Ledger, 3, n, U64(1)).result = "Unauthorized"
        /\ transfer_domain_run(Ledger, 3, n, 3).result = "Unauthorized"
        /\ set_resolver_run(Ledger, 3, n, Some(3)).result = "Unauthorized"
        /\ upsert_record_run(Ledger, 3, n, 1, "Text", Vec(20, 1), "Polygon", U64(1)).result
             = "Unauthorized"
        /\ delete_record_run(Ledger, 3, n, 1).result = "Unauthorized"
        /\ update_delegate_run(Ledger, 1, n, 3).result = "Ok"
        /\ renew_domain_run(Ledger, 1, n, U64(1)).result = "Unauthorized"
        /\ transfer_domain_run(Ledger, 2, n, 3).result = "Ok"
        /\ update_delegate_run(Ledger, 2, n, 3).result = "Unauthorized"
        /\ delete_record_run(Ledger, 1, n, 1).result = "Ok"
        /\ delete_record_run(Ledger, 2, n, 1).result = "Ok"

\* The counter after one more domain: old + 1, held at u64::MAX.
CountedOnce(old, new) ==
    \/ old = U64_MAX /\ new = old
    \/ old # U64_MAX /\ U64Lt(old, new) /\ U64Sub(new, old) = U64(1)

\* C6: with a valid duration, register_domain fails with DomainNotAvailable while
\* the domain has a delegate and is unexpired; once the expiration has passed (or
\* the name was never registered) any caller can register it, and the account is
\* rewritten: the caller is the delegate, the expiration is now + duration, the
\* resolver is the one given, and the mirror owner, mirror transaction, wrap
\* state, NFT mint and record counter are back at their defaults.
C6_RegisterAvailability ==
    \A s \in DomainInputs.signers, n \in DomainInputs.names,
       d \in DomainInputs.durations, r \in DomainInputs.resolvers :
        LET dom == domain_account[n]
            ret == register_domain_run(Ledger, s, n, d, r)
            after == Commit(Ledger, ret).domain_account[n]
        IN  ValidDuration(d) /\ registry.live =>
            /\ (dom.owner # PubkeyDefault /\ U64Lt(Now, dom.expiration))
               => ret.result = "DomainNotAvailable" /\ after = dom
            /\ U64Le(dom.expiration, Now) =>
                  /\ ret.result = "Ok"
                  /\ after.live /\ after.owner = s
                  /\ U64Le(Now, after.expiration)
                  /\ U64Sub(after.expiration, Now) = d
                  /\ after.resolver = r
                  /\ after.polygon_owner = PubkeyDefault
                  /\ after.last_polygon_tx = PubkeyDefault
                  /\ after.wrap_state = "None"
                  /\ after.nft_mint = None
                  /\ after.record_count = 0

\* C6's case: a mirrored, wrapped domain with a record and a delegate has just
\* reached its expiration, and another caller's registration of it succeeds.
C6_Witness ==
    \E n \in DomainInputs.names :
        LET dom == domain_account[n]
        IN  /\ dom.live /\ dom.owner = 2 /\ dom.expiration = Now
            /\ dom.polygon_owner # PubkeyDefault /\ dom.wrap_state # "None"
            /\ dom.nft_mint # None /\ dom.record_count = 1
            /\ register_domain_run(Ledger, 3, n, U64(1), Some(2)).result = "Ok"

\* C7: no step makes registry.domain_count smaller.
C7_DomainCountNeverDecreases ==
    [][U64Le(registry.domain_count, registry'.domain_count)]_vars

\* C7's case: the counter has been raised twice.
C7_Witness ==
    /\ registry.domain_count = U64(2)
    /\ \E n \in DomainInputs.names : domain_account[n].live

\* C8 as stated: domain_count goes up by one on every successful register_domain
\* and on every successful mirror_domain that is the first for the name or lands
\* on an existing domain whose expiration has passed.
C8_CountsExpiredMirror ==
    \A s \in DomainInputs.signers, n \in DomainInputs.names :
        LET dom == domain_account[n]
        IN
        /\ \A d \in DomainInputs.durations, r \in DomainInputs.resolvers :
              LET ret == register_domain_run(Ledger, s, n, d, r)
              IN  ret.result = "Ok" =>
                    CountedOnce(registry.domain_count, ret.ledger.registry.domain_count)
        /\ \A d \in DomainInputs.delegates, e \in DomainInputs.expirations,
              r \in DomainInputs.mirror_resolvers :
              LET ret == mirror_domain_run(Ledger, s, n, 5, d, e, r, 6)
              IN  ret.result = "Ok" /\ (~dom.live \/ U64Le(dom.expiration, Now)) =>
                    CountedOnce(registry.domain_count, ret.ledger.registry.domain_count)

\* C8: domain_count goes up by one (held at u64::MAX) on every successful
\* register_domain and on every successful mirror_domain that finds the domain's
\* delegate at the default key, a name never seen before included; any other
\* successful mirror_domain leaves the counter alone, expired domain or not.
C8_CountsUnownedMirror ==
    \A s \in DomainInputs.signers, n \in DomainInputs.names :
        LET dom == domain_account[n]
        IN
        /\ \A d \in DomainInputs.durations, r \in DomainInputs.resolvers :
              LET ret == register_domain_run(Ledger, s, n, d, r)
              IN  ret.result = "Ok" =>
                    CountedOnce(registry.domain_count, ret.ledger.registry.domain_count)
        /\ \A d \in DomainInputs.delegates, e \in DomainInputs.expirations,
              r \in DomainInputs.mirror_resolvers :
              LET ret == mirror_domain_run(Ledger, s, n, 5, d, e, r, 6)
              IN  ret.result = "Ok" =>
                    IF dom.owner = PubkeyDefault
                    THEN CountedOnce(registry.domain_count,
                                     ret.ledger.registry.domain_count)
                    ELSE ret.ledger.registry.domain_count = registry.domain_count

\* C8's case: a mirror succeeds on an expired domain that still has a delegate,
\* and the counter stays where it was.
C8_Witness ==
    \E n \in DomainInputs.names :
        LET dom == domain_account[n]
            ret == mirror_domain_run(Ledger, 1, n, 5, None, U64(1), None, 6)
        IN  /\ dom.live /\ dom.owner # PubkeyDefault /\ U64Le(dom.expiration, Now)
            /\ ret.result = "Ok"
            /\ ret.ledger.registry.domain_count = registry.domain_count
            /\ registry.domain_count = U64(1)

\* new = min(old + d, u64::MAX), said without the addition the handlers use.
AddedOrCeiling(old, d, new) ==
    IF U64Le(d, U64Sub(U64_MAX, old))
    THEN U64Le(old, new) /\ U64Sub(new, old) = d
    ELSE new = U64_MAX

\* C9: renew_domain by the stored delegate with a valid duration d succeeds and
\* moves the expiration to min(old + d, u64::MAX), never below the old one; a
\* renewal right after a registration gives exactly the registered expiration
\* plus d; d = 0 or d above ten years fails with InvalidDuration, whoever calls.
C9_RenewSaturates ==
    \A s \in DomainInputs.signers, n \in DomainInputs.names,
       d \in DomainInputs.durations :
        LET dom == domain_account[n]
            ret == renew_domain_run(Ledger, s, n, d)
            after == Commit(Ledger, ret).domain_account[n]
        IN
        /\ dom.live /\ s = dom.owner /\ ValidDuration(d) =>
              /\ ret.result = "Ok"
              /\ AddedOrCeiling(dom.expiration, d, after.expiration)
              /\ U64Le(dom.expiration, after.expiration)
              /\ [after EXCEPT !.expiration = dom.expiration] = dom
        /\ dom.live /\ ~ValidDuration(d) =>
              ret.result = "InvalidDuration" /\ after = dom
        /\ \A d0 \in DomainInputs.durations, r \in DomainInputs.resolvers :
              LET reg == register_domain_run(Ledger, s, n, d0, r)
                  then == renew_domain_run(Commit(Ledger, reg), s, n, d)
                  old == reg.ledger.domain_account[n].expiration
                  new == then.ledger.domain_account[n].expiration
              IN  reg.result = "Ok" /\ ValidDuration(d) =>
                    /\ then.result = "Ok"
                    /\ U64Lt(old, new) /\ U64Sub(new, old) = d

\* C9's case: a renewal by the delegate has pushed the expiration to u64::MAX,
\* where a further renewal succeeds and leaves it.
C9_Witness ==
    \E n \in DomainInputs.names :
        LET dom == domain_account[n]
            ret == renew_domain_run(Ledger, dom.owner, n, TEN_YEARS_IN_SECONDS)
        IN  /\ dom.live /\ dom.owner \in Signers
            /\ dom.expiration = U64_MAX
            /\ ret.result = "Ok"
            /\ ret.ledger.domain_account[n].expiration = U64_MAX

\* What transfer_domain answers on an existing domain: the first failing check
\* names the error.
TransferAnswer(dom, s) ==
    IF dom.owner = PubkeyDefault THEN "DomainNotAvailable"
    ELSE IF ~U64Lt(Now, dom.expiration) THEN "DomainExpired"
    ELSE IF s # dom.owner THEN "Unauthorized"
    ELSE "Ok"

\* The signer can transfer the domain, renew it or set its resolver.
Controls(ctx, s, n) ==
    \/ \E o \in DomainInputs.new_owners :
          transfer_domain_run(ctx, s, n, o).result = "Ok"
    \/ \E d \in DomainInputs.durations :
          renew_domain_run(ctx, s, n, d).result = "Ok"
    \/ \E r \in DomainInputs.resolvers :
          set_resolver_run(ctx, s, n, r).result = "Ok"

\* C10 as stated: transfer_domain succeeds exactly when the delegate is not the
\* default key, the domain is unexpired and the caller is the delegate, with
\* DomainNotAvailable, DomainExpired, Unauthorized for the first failing check;
\* after a success the delegate is the new one and the previous delegate can no
\* longer transfer, renew or set the resolver.
C10_PreviousDelegateLosesControl ==
    \A s \in DomainInputs.signers, n \in DomainInputs.names,
       o \in DomainInputs.new_owners :
        LET dom == domain_account[n]
            ret == transfer_domain_run(Ledger, s, n, o)
            after == Commit(Ledger, ret)
        IN  dom.live =>
            /\ ret.result = TransferAnswer(dom, s)
            /\ ret.result = "Ok" =>
                  /\ after.domain_account[n] = [dom EXCEPT !.owner = o]
                  /\ ~Controls(after, s, n)

\* C10: as above, and the previous delegate loses control of the domain whenever
\* the new delegate is someone else; a transfer to oneself changes nothing.
C10_TransferHandsOver ==
    \A s \in DomainInputs.signers, n \in DomainInputs.names,
       o \in DomainInputs.new_owners :
        LET dom == domain_account[n]
            ret == transfer_domain_run(Ledger, s, n, o)
            after == Commit(Ledger, ret)
        IN  dom.live =>
            /\ ret.result = TransferAnswer(dom, s)
            /\ ret.result = "Ok" =>
                  /\ after.domain_account[n] = [dom EXCEPT !.owner = o]
                  /\ o # s => ~Controls(after, s, n)
                  /\ o = s => after = Ledger /\ Controls(after, s, n)
                  /\ o \in Signers => Controls(after, o, n)

\* C10's case: an unexpired domain of delegate 2, who can hand it to 3 and lose
\* control, or to itself and keep it, while 3 is refused.
C10_Witness ==
    \E n \in DomainInputs.names :
        LET dom == domain_account[n]
            give == transfer_domain_run(Ledger, 2, n, 3)
            keep == transfer_domain_run(Ledger, 2, n, 2)
        IN  /\ dom.live /\ dom.owner = 2 /\ U64Lt(Now, dom.expiration)
            /\ give.result = "Ok" /\ ~Controls(give.ledger, 2, n)
            /\ Controls(give.ledger, 3, n)
            /\ keep.result = "Ok" /\ Controls(keep.ledger, 2, n)
            /\ transfer_domain_run(Ledger, 3, n, 3).result = "Unauthorized"

\* C11: no domain account holds an NFT mint while its wrap state is None.
C11_MintOnlyWhenWrapped ==
    \A n \in NameHashes :
        domain_account[n].wrap_state = "None" => domain_account[n].nft_mint = None

\* C12: right after a successful upsert_record the record account holds the
\* submitted type, source, version and payload; right after a successful
\* delete_record the record account does not exist, and the next upsert_record
\* on the same domain and key by a permitted caller, with a payload that fits,
\* is a first write: no version is compared and record_count goes up by one.
C12_RecordRoundTrip ==
    \A s \in RecordInputs.signers, n \in RecordInputs.names, k \in RecordInputs.keys :
        /\ \A t \in {"Address", "Text"}, d \in RecordInputs.datas,
              c \in RecordInputs.sources, v \in RecordInputs.versions :
              LET ret == upsert_record_run(Ledger, s, n, k, t, d, c, v)
                  read == Commit(Ledger, ret).record_account[<<n, k>>]
              IN  ret.result = "Ok" =>
                    /\ read.live
                    /\ read.record_type = t /\ read.source_chain = c
                    /\ read.version = v /\ read.data = d
        /\ LET del == delete_record_run(Ledger, s, n, k)
               gone == Commit(Ledger, del)
           IN  del.result = "Ok" =>
                 /\ ~gone.record_account[<<n, k>>].live
                 /\ \A s2 \in RecordInputs.signers, d \in RecordInputs.datas,
                       c \in RecordInputs.sources, v \in RecordInputs.versions :
                       LET again == upsert_record_run(gone, s2, n, k, "Text", d, c, v)
                       IN  MayWriteRecords(gone, s2, n) /\ d.len <= 512 =>
                             /\ again.result = "Ok"
                             /\ again.ledger.domain_account[n].record_count
                                  = gone.domain_account[n].record_count + 1
                             /\ again.ledger.record_account[<<n, k>>].version = v

\* C12's case: under PolygonPriority a Polygon record of version 6 exists, a
\* local write of version 4 is refused, and after the delegate's delete_record
\* the same write succeeds.
C12_Witness ==
    \E n \in RecordInputs.names, k \in RecordInputs.keys :
        LET del == delete_record_run(Ledger, 2, n, k)
        IN  /\ registry.conflict_policy = "PolygonPriority"
            /\ record_account[<<n, k>>].live
            /\ record_account[<<n, k>>].source_chain = "Polygon"
            /\ record_account[<<n, k>>].version = U64(6)
            /\ record_account[<<n, k>>].data = Vec(MAX_RECORD_LENGTH, 2)
            /\ domain_account[n].record_count = 1
            /\ upsert_record_run(Ledger, 2, n, k, "Text", Vec(20, 1), "Solana", U64(4)).result
                 = "ConflictViolation"
            /\ del.result = "Ok"
            /\ upsert_record_run(del.ledger, 2, n, k, "Text", Vec(20, 1), "Solana", U64(4)).result
                 = "Ok"

\* The registry of `after` is the registry of `before` but for domain_count.
OnlyCounted(before, after) ==
    [after.registry EXCEPT !.domain_count = before.registry.domain_count]
        = before.registry

\* C13: initialize creates the registry once, with authority = caller,
\* domain_count = 0 and the policy given, and fails on an existing registry;
\* from then on the registry stays, no instruction changes its authority,
\* polygon_registry, conflict_policy or version, and domain_count is written by
\* register_domain and mirror_domain only.
C13_RegistryWrittenOnce ==
    /\ \A a \in RecordInputs.signers, p \in RecordInputs.policies :
          LET ret == initialize_run(Ledger, a, 7, p)
          IN  IF registry.live
              THEN ret.result # "Ok" /\ Commit(Ledger, ret) = Ledger
              ELSE /\ ret.result = "Ok"
                   /\ ret.ledger.registry =
                        [live |-> TRUE, authority |-> a, polygon_registry |-> 7,
                         domain_count |-> U64(0), conflict_policy |-> p, version |-> 2]
                   /\ ret.ledger.domain_account = domain_account
                   /\ ret.ledger.record_account = record_account
    /\ \A ret \in Runs(Ledger, RecordInputs) :
          registry.live =>
              /\ Commit(Ledger, ret).registry.live
              /\ OnlyCounted(Ledger, Commit(Ledger, ret))
    /\ \A s \in RecordInputs.signers, n \in RecordInputs.names :
          /\ \A d \in RecordInputs.durations :
                Commit(Ledger, renew_domain_run(Ledger, s, n, d)).registry = registry
          /\ \A o \in RecordInputs.new_owners :
                /\ Commit(Ledger, transfer_domain_run(Ledger, s, n, o)).registry = registry
                /\ Commit(Ledger, update_delegate_run(Ledger, s, n, o)).registry = registry
          /\ \A r \in RecordInputs.resolvers :
                Commit(Ledger, set_resolver_run(Ledger, s, n, r)).registry = registry
          /\ \A w \in RecordInputs.wraps :
                Commit(Ledger, set_wrap_state_run(Ledger, s, n, w[1], w[2])).registry
                    = registry
          /\ \A k \in RecordInputs.keys :
                /\ Commit(Ledger, delete_record_run(Ledger, s, n, k)).registry = registry
                /\ \A t \in RecordInputs.record_types, d \in RecordInputs.datas,
                      c \in RecordInputs.sources, v \in RecordInputs.versions :
                      Commit(Ledger, upsert_record_run(Ledger, s, n, k, t, d, c, v)).registry
                          = registry

\* C13's case: a registry created with the non-default policy, counted up twice
\* since, on which a second initialize fails.
C13_Witness ==
    /\ registry.live /\ registry.authority = 1
    /\ registry.conflict_policy = "LatestWriteWins"
    /\ registry.domain_count = U64(2)
    /\ initialize_run(Ledger, 2, 7, "PolygonPriority").result = "AccountAlreadyInUse"
    /\ \E n \in RecordInputs.names : record_account[<<n, 1>>].live

\* Nothing has been created yet.
EmptyStore ==
    /\ ~registry.live
    /\ \A n \in NameHashes : ~domain_account[n].live
    /\ \A k \in NameHashes \X KeyHashes : ~record_account[k].live

\* C14: on an empty store, initialize(PolygonPriority) by A, then mirror_domain of
\* a name with Polygon owner O, no delegate and expiration T by A leaves a domain
\* with delegate A, Polygon owner O, expiration T, wrap state None, no records,
\* and domain_count = 1; then A's upsert_record of a 20-byte Address record from
\* Polygon with version 1 makes record_count 1; then A's delete_record makes it 0
\* and the record account is gone.
C14_EndToEnd ==
    EmptyStore =>
    \A A \in Signers, n \in NameHashes, k \in KeyHashes,
       T \in DomainInputs.expirations, r \in DomainInputs.resolvers :
        LET init == initialize_run(Ledger, A, 7, "PolygonPriority")
            L1 == Commit(Ledger, init)
            mirror == mirror_domain_run(L1, A, n, 5, None, T, r, 6)
            L2 == Commit(L1, mirror)
            upsert == upsert_record_run(L2, A, n, k, "Address", Vec(20, 1), "Polygon", U64(1))
            L3 == Commit(L2, upsert)
            delete == delete_record_run(L3, A, n, k)
            L4 == Commit(L3, delete)
        IN  /\ init.result = "Ok"
            /\ mirror.result = "Ok"
            /\ L2.domain_account[n].live
            /\ L2.domain_account[n].owner = A
            /\ L2.domain_account[n].polygon_owner = 5
            /\ L2.domain_account[n].expiration = T
            /\ L2.domain_account[n].wrap_state = "None"
            /\ L2.domain_account[n].record_count = 0
            /\ L2.registry.domain_count = U64(1)
            /\ upsert.result = "Ok"
            /\ L3.record_account[<<n, k>>].live
            /\ L3.domain_account[n].record_count = 1
            /\ delete.result = "Ok"
            /\ L4.domain_account[n].record_count = 0
            /\ ~L4.record_account[<<n, k>>].live
            /\ L4.registry.domain_count = U64(1)

\* C14's case: the trace has been run up to the record: one mirrored domain of
\* the authority with one Polygon record of version 1, which the authority can
\* delete.
C14_Witness ==
    \E n \in DomainInputs.names, k \in DomainInputs.keys :
        LET delete == delete_record_run(Ledger, 1, n, k)
        IN  /\ registry.authority = 1 /\ registry.domain_count = U64(1)
            /\ domain_account[n].owner = 1
            /\ domain_account[n].polygon_owner = 5
            /\ domain_account[n].expiration = U64(1)
            /\ domain_account[n].wrap_state = "None"
            /\ domain_account[n].record_count = 1
            /\ record_account[<<n, k>>].live
            /\ record_account[<<n, k>>].version = U64(1)
            /\ record_account[<<n, k>>].data.len = 20
            /\ delete.result = "Ok"
            /\ delete.ledger.domain_account[n].record_count = 0
            /\ ~delete.ledger.record_account[<<n, k>>].live

\* C15: mirror_domain by the registry authority succeeds whatever the domain's
\* state; afterwards the delegate is the one given, or the authority when none is
\* given, and polygon_owner, resolver, expiration and last_polygon_tx are the
\* arguments.  If the delegate was the default key before, wrap_state and
\* record_count are reset and domain_count goes up by one; if not, wrap_state,
\* nft_mint, record_count and domain_count stay as they were.
C15_MirrorOverwrites ==
    \A n \in NameHashes, d \in DomainInputs.delegates \cup {Some(3)},
       e \in DomainInputs.expirations, r \in DomainInputs.resolvers :
        LET dom == domain_account[n]
            ret == mirror_domain_run(Ledger, registry.authority, n, 5, d, e, r, 6)
            after == Commit(Ledger, ret)
            now == after.domain_account[n]
        IN  registry.live =>
            /\ ret.result = "Ok"
            /\ now.live
            /\ now.owner = (IF d = None THEN registry.authority ELSE d[1])
            /\ now.polygon_owner = 5 /\ now.resolver = r
            /\ now.expiration = e /\ now.last_polygon_tx = 6
            /\ IF dom.owner = PubkeyDefault
               THEN /\ now.wrap_state = "None" /\ now.record_count = 0
                    /\ CountedOnce(registry.domain_count, after.registry.domain_count)
               ELSE /\ now.wrap_state = dom.wrap_state /\ now.nft_mint = dom.nft_mint
                    /\ now.record_count = dom.record_count
                    /\ after.registry = registry
            /\ \A m \in NameHashes \ {n} : after.domain_account[m] = domain_account[m]
            /\ after.record_account = record_account

\* C15's case: a wrapped, expired domain with a record, whose delegate is the
\* default key: the authority's mirror succeeds, installs the delegate given,
\* unwraps the domain and counts it.
C15_Witness ==
    \E n \in DomainInputs.names :
        LET dom == domain_account[n]
            ret == mirror_domain_run(Ledger, 1, n, 5, Some(2), U64(1), None, 6)
        IN  /\ registry.authority = 1 /\ dom.live
            /\ dom.owner = PubkeyDefault
            /\ dom.wrap_state = "Solana" /\ dom.nft_mint = Some(9)
            /\ dom.record_count = 1 /\ U64Le(dom.expiration, Now)
            /\ registry.domain_count = U64(1)
            /\ ret.result = "Ok"
            /\ ret.ledger.domain_account[n].owner = 2
            /\ ret.ledger.domain_account[n].wrap_state = "None"
            /\ ret.ledger.registry.domain_count = U64(2)

\* One call of either write path: the instruction, its signer and its arguments
\* (key: the new delegate; opt: the resolver, or the mirrored delegate; opt2: the
\* mirrored resolver; num: the duration, or the mirrored expiration).
Call(op, signer, key, opt, opt2, num) ==
    [op |-> op, signer |-> signer, key |-> key, opt |-> opt, opt2 |-> opt2, num |-> num]

\* The calls of the legacy path: transfer_domain, set_resolver, renew_domain.
LegacyCalls ==
    {Call("transfer_domain", s, o, None, None, U64(0)) : s \in Signers, o \in {1, 3}}
    \cup {Call("set_resolver", s, 0, r, None, U64(0)) : s \in Signers, r \in {None, Some(2)}}
    \cup {Call("renew_domain", s, 0, None, None, d) :
            s \in Signers, d \in {U64(1), TEN_YEARS_IN_SECONDS}}

\* The calls of the mirror path: mirror_domain, update_delegate.
MirrorCalls ==
    {Call("mirror_domain", s, 0, x[1], x[2], x[3]) :
        s \in Signers,
        x \in {None, Some(2)} \X {None, Some(3)} \X {U64(1), U64Sub(U64_MAX, U64(1))}}
    \cup {Call("update_delegate", s, o, None, None, U64(0)) : s \in Signers, o \in {2, 3}}

\* The handler's return for a call.
Apply(ctx, n, x) ==
    CASE x.op = "transfer_domain" -> transfer_domain_run(ctx, x.signer, n, x.key)
      [] x.op = "set_resolver" -> set_resolver_run(ctx, x.signer, n, x.opt)
      [] x.op = "renew_domain" -> renew_domain_run(ctx, x.signer, n, x.num)
      [] x.op = "mirror_domain" ->
            mirror_domain_run(ctx, x.signer, n, 5, x.opt, x.num, x.opt2, 6)
      [] x.op = "update_delegate" -> update_delegate_run(ctx, x.signer, n, x.key)

\* The two write paths on one domain, interleaved in every order: the authority
\* creates the registry, then any signer makes any call of either path, or time
\* passes.
NextInterleave ==
    \/ \E a \in {1}, p \in {"PolygonPriority"} :
          initialize(a, 7, p)
    \/ \E n \in {1}, x \in LegacyCalls :
          /\ ExpirationInBounds(Apply(Ledger, n, x).ledger.domain_account[n].expiration)
          /\ Invoke(Apply(Ledger, n, x))
    \/ \E n \in {1}, y \in MirrorCalls :
          Invoke(Apply(Ledger, n, y))
    \/ Tick

SpecInterleave == Init /\ [][NextInterleave]_vars

\* The call passes its own checks against the ledger it is made on: the
\* authorization check of its path and, for transfer_domain, the expiry check.
Passes(ctx, n, x) ==
    LET dom == ctx.domain_account[n]
    IN  CASE x.op = "transfer_domain" ->
                /\ dom.owner # PubkeyDefault
                /\ U64Lt(U64(ctx.clock.unix_timestamp), dom.expiration)
                /\ x.signer = dom.owner
          [] x.op = "set_resolver" -> x.signer = dom.owner
          [] x.op = "renew_domain" -> ValidDuration(x.num) /\ x.signer = dom.owner
          [] x.op = "mirror_domain" -> x.signer = ctx.registry.authority
          [] x.op = "update_delegate" -> x.signer = ctx.registry.authority

\* Delegate, resolver and expiration of the domain.
Fields(ctx, n) ==
    [owner |-> ctx.domain_account[n].owner,
     resolver |-> ctx.domain_account[n].resolver,
     expiration |-> ctx.domain_account[n].expiration]

\* The three fields after the call has written the ones it writes.
Written(ctx, n, x) ==
    LET f == Fields(ctx, n)
    IN  CASE x.op = "transfer_domain" -> [f EXCEPT !.owner = x.key]
          [] x.op = "set_resolver" -> [f EXCEPT !.resolver = x.opt]
          [] x.op = "renew_domain" ->
                [f EXCEPT !.expiration =
                    IF U64Le(x.num, U64Sub(U64_MAX, f.expiration))
                    THEN AddCarry(f.expiration, x.num).value ELSE U64_MAX]
          [] x.op = "mirror_domain" ->
                [owner |-> IF x.opt = None THEN ctx.registry.authority ELSE x.opt[1],
                 resolver |-> x.opt2, expiration |-> x.num]
          [] x.op = "update_delegate" -> [f EXCEPT !.owner = x.key]

\* The call is applied whole or not at all, is judged on the ledger it finds
\* and on nothing else, and leaves in each field the value it writes there.
LastWriterWins(ctx, n, x) ==
    LET ret == Apply(ctx, n, x)
        after == Commit(ctx, ret)
    IN  /\ ret.result = "Ok" <=> Passes(ctx, n, x)
        /\ IF Passes(ctx, n, x)
           THEN Fields(after, n) = Written(ctx, n, x)
           ELSE after = ctx

\* C16: on one existing domain, a call of the legacy path (transfer_domain,
\* set_resolver, renew_domain) and a call of the mirror path (mirror_domain,
\* update_delegate), made in either order from any reachable ledger, are each
\* applied atomically; each succeeds exactly when it passes its own
\* authorization and expiry checks against the ledger it finds, whatever path
\* wrote that ledger; and after each, delegate, resolver and expiration hold
\* what the latest successful call writing that field wrote.
C16_LastWriterWins ==
    \A n \in DomainInputs.names :
        registry.live /\ domain_account[n].live =>
            /\ \A x \in LegacyCalls :
                  /\ LastWriterWins(Ledger, n, x)
                  /\ \A y \in MirrorCalls :
                        LastWriterWins(Commit(Ledger, Apply(Ledger, n, x)), n, y)
            /\ \A y \in MirrorCalls :
                  /\ LastWriterWins(Ledger, n, y)
                  /\ \A x \in LegacyCalls :
                        LastWriterWins(Commit(Ledger, Apply(Ledger, n, y)), n, x)

\* C16's case: the paths have alternated.  The expiration is one that only a
\* renewal after a mirror gives, the resolver one that only the delegate's
\* set_resolver after the last mirror gives, and the delegate is neither the
\* authority nor the mirrored one; the authority can mirror over all three.
C16_Witness ==
    \E n \in DomainInputs.names :
        LET dom == domain_account[n]
            ret == mirror_domain_run(Ledger, 1, n, 5, None, U64(1), None, 6)
        IN  /\ registry.authority = 1
            /\ dom.polygon_owner = 5
            /\ dom.owner = 3 /\ dom.resolver = Some(2) /\ dom.expiration = U64_MAX
            /\ ret.result = "Ok"
            /\ Fields(ret.ledger, n) = [owner |-> 1, resolver |-> None, expiration |-> U64(1)]

\* C17: a successful update_delegate changes the domain's delegate and nothing
\* else in the ledger; set_resolver the resolver; renew_domain the expiration;
\* transfer_domain the delegate; set_wrap_state the wrap state and the NFT mint.
\* The domain's other fields, the other domains, the records and the registry
\* are as before.
C17_SingleFieldWrites ==
    \A s \in FrameInputs.signers, n \in FrameInputs.names :
        /\ \A o \in Pubkeys :
              LET upd == update_delegate_run(Ledger, s, n, o)
                  tra == transfer_domain_run(Ledger, s, n, o)
              IN  /\ upd.result = "Ok" =>
                        Commit(Ledger, upd) = [Ledger EXCEPT !.domain_account[n].owner = o]
                  /\ tra.result = "Ok" =>
                        Commit(Ledger, tra) = [Ledger EXCEPT !.domain_account[n].owner = o]
        /\ \A r \in {None, Some(2), Some(3)} :
              LET ret == set_resolver_run(Ledger, s, n, r)
              IN  ret.result = "Ok" =>
                    Commit(Ledger, ret) = [Ledger EXCEPT !.domain_account[n].resolver = r]
        /\ \A d \in DomainInputs.durations :
              LET ret == renew_domain_run(Ledger, s, n, d)
              IN  ret.result = "Ok" =>
                    Commit(Ledger, ret) =
                        [Ledger EXCEPT !.domain_account[n].expiration =
                            ret.ledger.domain_account[n].expiration]
        /\ \A m \in {None, Some(8)}, w \in {"None", "Polygon", "Solana"} :
              LET ret == set_wrap_state_run(Ledger, s, n, m, w)
              IN  ret.result = "Ok" =>
                    Commit(Ledger, ret) =
                        [Ledger EXCEPT !.domain_account[n].nft_mint = m,
                                       !.domain_account[n].wrap_state = w]

\* C17's case: two domains, each wrapped, with a resolver and a record; the
\* delegate of the first can transfer it, renew it and set its resolver, and the
\* authority can change its delegate and its wrap state.
C17_Witness ==
    /\ registry.authority = 1 /\ registry.domain_count = U64(2)
    /\ \A n \in {1, 2} :
          /\ domain_account[n].live /\ domain_account[n].owner = 2
          /\ domain_account[n].resolver = Some(2)
          /\ domain_account[n].wrap_state = "Solana"
          /\ domain_account[n].record_count = 1
          /\ record_account[<<n, 1>>].live
          /\ U64Lt(Now, domain_account[n].expiration)
    /\ transfer_domain_run(Ledger, 2, 1, 3).result = "Ok"
    /\ renew_domain_run(Ledger, 2, 1, U64(1)).result = "Ok"
    /\ set_resolver_run(Ledger, 2, 1, None).result = "Ok"
    /\ update_delegate_run(Ledger, 1, 1, 3).result = "Ok"
    /\ set_wrap_state_run(Ledger, 1, 1, None, "None").result = "Ok"

\* i64::MAX as a u64: the latest time the clock can show.
LatestTime == <<2^15 - 1, LimbBase - 1, LimbBase - 1>>

\* C18: no counter and no expiration wraps.  domain_count never goes down on a
\* register_domain or mirror_domain and stays at u64::MAX there; record_count
\* stays within u16, never goes down on an upsert_record and stays at u16::MAX
\* there, never goes up on a delete_record and stays at 0 there; the expiration
\* written by register_domain is not before the current time, up to the latest
\* time a clock can show, and the one written by renew_domain is not before the
\* one it extends.
C18_NothingWraps ==
    /\ \A n \in NameHashes : domain_account[n].record_count \in 0..65535
    /\ \A d \in DomainInputs.durations :
          ValidDuration(d) =>
              /\ ~AddCarry(LatestTime, d).carry
              /\ U64Lt(LatestTime, AddCarry(LatestTime, d).value)
    /\ \A s \in Signers, n \in NameHashes :
          LET dom == domain_account[n]
          IN
          /\ \A d \in DomainInputs.durations, r \in {None} :
                LET ret == register_domain_run(Ledger, s, n, d, r)
                    after == ret.ledger
                IN  ret.result = "Ok" =>
                      /\ U64Le(registry.domain_count, after.registry.domain_count)
                      /\ registry.domain_count = U64_MAX
                            => after.registry.domain_count = U64_MAX
                      /\ U64Lt(Now, after.domain_account[n].expiration)
                      /\ U64Le(d, after.domain_account[n].expiration)
          /\ \A d \in DomainInputs.durations :
                LET ret == renew_domain_run(Ledger, s, n, d)
                IN  ret.result = "Ok" =>
                      /\ U64Le(dom.expiration, ret.ledger.domain_account[n].expiration)
                      /\ U64Le(d, ret.ledger.domain_account[n].expiration)
          /\ \A d \in DomainInputs.delegates, e \in DomainInputs.expirations :
                LET ret == mirror_domain_run(Ledger, s, n, 5, d, e, None, 6)
                    after == ret.ledger
                IN  ret.result = "Ok" =>
                      /\ U64Le(registry.domain_count, after.registry.domain_count)
                      /\ registry.domain_count = U64_MAX
                            => after.registry.domain_count = U64_MAX
          /\ \A k \in KeyHashes :
                LET ups == upsert_record_run(Ledger, s, n, k, "Text", Vec(20, 1), "Polygon", U64(1))
                    del == delete_record_run(Ledger, s, n, k)
                IN  /\ ups.result = "Ok" =>
                          /\ ups.ledger.domain_account[n].record_count \in 0..65535
                          /\ ups.ledger.domain_account[n].record_count >= dom.record_count
                          /\ dom.record_count = 65535 =>
                                ups.ledger.domain_account[n].record_count = 65535
                    /\ del.result = "Ok" =>
                          /\ del.ledger.domain_account[n].record_count \in 0..65535
                          /\ del.ledger.domain_account[n].record_count <= dom.record_count
                          /\ dom.record_count = 0 =>
                                del.ledger.domain_account[n].record_count = 0

\* C18's case: both counters are at their maxima and are incremented there: a
\* registration and a first write of a record both succeed and leave them.
C18_Witness ==
    LET reg == register_domain_run(Ledger, 3, 2, U64(1), None)
        ups == upsert_record_run(Ledger, 1, 1, 2, "Text", Vec(20, 1), "Polygon", U64(1))
    IN  /\ registry.domain_count = U64_MAX
        /\ domain_account[1].record_count = 65535
        /\ ~record_account[<<1, 2>>].live
        /\ reg.result = "Ok" /\ reg.ledger.registry.domain_count = U64_MAX
        /\ ups.result = "Ok" /\ ups.ledger.record_account[<<1, 2>>].live
        /\ ups.ledger.domain_account[1].record_count = 65535

\* C19: under PolygonPriority, a successful upsert_record by the domain's
\* delegate, when the delegate is not the registry authority, never leaves an
\* existing record of version > 0 with a smaller version.
C19_DelegateCannotLowerVersion ==
    \A s \in RecordInputs.signers, n \in RecordInputs.names, k \in RecordInputs.keys,
       t \in RecordInputs.record_types, d \in RecordInputs.datas,
       c \in RecordInputs.sources, v \in RecordInputs.versions :
        LET stored == record_account[<<n, k>>]
            ret == upsert_record_run(Ledger, s, n, k, t, d, c, v)
            after == Commit(Ledger, ret).record_account[<<n, k>>]
        IN  (/\ registry.conflict_policy = "PolygonPriority"
             /\ stored.live /\ U64Lt(U64(0), stored.version)
             /\ s = domain_account[n].owner /\ s # registry.authority
             /\ ret.result = "Ok")
            => U64Le(stored.version, after.version)

\* C20: on a domain whose expiration is later than the current time, an
\* instruction that changes the delegate was sent by the delegate or by the
\* registry authority.
C20_NoTakeover ==
    \A s \in DomainInputs.signers, n \in DomainInputs.names :
        LET dom == domain_account[n]
            Kept(ret) ==
                (/\ ret.result = "Ok"
                 /\ U64Lt(Now, dom.expiration)
                 /\ ret.ledger.domain_account[n].owner # dom.owner)
                => (s = dom.owner \/ s = registry.authority)
        IN
        /\ \A d \in DomainInputs.durations, r \in DomainInputs.resolvers :
              Kept(register_domain_run(Ledger, s, n, d, r))
        /\ \A o \in DomainInputs.new_owners :
              /\ Kept(transfer_domain_run(Ledger, s, n, o))
              /\ Kept(update_delegate_run(Ledger, s, n, o))
        /\ \A d \in DomainInputs.delegates, e \in DomainInputs.expirations,
              r \in DomainInputs.mirror_resolvers :
              Kept(mirror_domain_run(Ledger, s, n, 5, d, e, r, 6))
        /\ \A d \in DomainInputs.durations : Kept(renew_domain_run(Ledger, s, n, d))
        /\ \A r \in DomainInputs.resolvers : Kept(set_resolver_run(Ledger, s, n, r))
        /\ \A w \in DomainInputs.wraps :
              Kept(set_wrap_state_run(Ledger, s, n, w[1], w[2]))
        /\ \A k \in DomainInputs.keys :
              /\ Kept(delete_record_run(Ledger, s, n, k))
              /\ Kept(upsert_record_run(Ledger, s, n, k, "Text", Vec(20, 1), "Polygon", U64(1)))

\* The ledger with the domain's expiration moved to the end of time.
Unexpired(ctx, n) == [ctx EXCEPT !.domain_account[n].expiration = U64_MAX]

\* C21: on a domain whose expiration has passed, the stored delegate's
\* renew_domain (valid duration), set_resolver, upsert_record and delete_record
\* (of an existing record) succeed, and answer every call as they would were the
\* domain unexpired; transfer_domain fails with DomainExpired.  renew_domain
\* moves the expiration to the stored one plus the duration, whatever the time
\* is, and when that is still not after the current time anyone else can
\* register the domain right after the renewal.
C21_ExpiryOnlyOnRegisterAndTransfer ==
    \A n \in DomainInputs.names :
        LET dom == domain_account[n]
            s == dom.owner
        IN  (/\ registry.live /\ dom.live /\ s \in Signers
             /\ U64Le(dom.expiration, Now))
            =>
            /\ \A o \in DomainInputs.new_owners :
                  transfer_domain_run(Ledger, s, n, o).result = "DomainExpired"
            /\ \A d \in DomainInputs.durations :
                  LET ret == renew_domain_run(Ledger, s, n, d)
                      new == ret.ledger.domain_account[n].expiration
                  IN  ValidDuration(d) =>
                        /\ ret.result = "Ok"
                        /\ AddedOrCeiling(dom.expiration, d, new)
                        /\ U64Le(new, Now) =>
                              \A t \in Signers \ {s} :
                                 register_domain_run(Commit(Ledger, ret), t, n, U64(1), None).result
                                     = "Ok"
            /\ \A r \in DomainInputs.resolvers :
                  LET ret == set_resolver_run(Ledger, s, n, r)
                  IN  /\ ret.result = "Ok"
                      /\ ret.ledger.domain_account[n].resolver = r
            /\ \A k \in DomainInputs.keys :
                  /\ upsert_record_run(Ledger, s, n, k, "Text", Vec(20, 1), "Polygon", U64(1)).result
                        = "Ok"
                  /\ record_account[<<n, k>>].live =>
                        delete_record_run(Ledger, s, n, k).result = "Ok"
                  /\ \A c \in {"Polygon", "Solana"}, v \in {U64(0), U64(1), U64(2)},
                        d \in {Vec(20, 1), Vec(513, 3)}, t \in Signers :
                        /\ upsert_record_run(Ledger, t, n, k, "Text", d, c, v).result
                             = upsert_record_run(Unexpired(Ledger, n), t, n, k, "Text", d, c, v).result
                        /\ delete_record_run(Ledger, t, n, k).result
                             = delete_record_run(Unexpired(Ledger, n), t, n, k).result

\* C21's case: a domain registered for one second, with a record, two seconds
\* on: its delegate renews it by one second, sets its resolver and writes and
\* deletes its record, and after the renewal it is still expired and the other
\* signers can register it.
C21_Witness ==
    \E n \in DomainInputs.names :
        LET dom == domain_account[n]
            ret == renew_domain_run(Ledger, 2, n, U64(1))
        IN  /\ dom.live /\ dom.owner = 2 /\ dom.polygon_owner = PubkeyDefault
            /\ dom.expiration = U64(1) /\ Now = U64(2)
            /\ record_account[<<n, 1>>].live
            /\ ret.result = "Ok"
            /\ ret.ledger.domain_account[n].expiration = U64(2)
            /\ register_domain_run(ret.ledger, 3, n, U64(1), None).result = "Ok"
            /\ set_resolver_run(Ledger, 2, n, Some(2)).result = "Ok"
            /\ delete_record_run(Ledger, 2, n, 1).result = "Ok"
            /\ transfer_domain_run(Ledger, 2, n, 3).result = "DomainExpired"

====
